---- MODULE Spec2Model ----
(***************************************************************************)
(* Credit ledger of the Credit-Based-SaaS backend: CreditService           *)
(* (deductCredits, addCredits, purchaseCredits) and the BlockchainService  *)
(* mirror, as concurrent request handlers over one database.               *)
(*                                                                         *)
(* Database model.  A write made with { session } inside                   *)
(* session.withTransaction (prisma: through tx inside $transaction) is     *)
(* buffered in the transaction and becomes visible at commit; the first    *)
(* write to a user document takes that document's write lock until commit  *)
(* or abort.  A write made without a session is committed at once, and     *)
(* waits while another transaction holds the document's lock.  A read      *)
(* without a session returns the last committed value.                     *)
(*                                                                         *)
(* Faults.  Spec injects: the mirror throwing, an audit write failing, a   *)
(* payment write failing.  Transient transaction errors that make          *)
(* withTransaction re-run its callback are not part of Spec.               *)
(***************************************************************************)
EXTENDS Integers, Sequences, FiniteSets, TLC

\* ---------------------------------------------------------------- bounds
NumProcs == 2
MaxCalls == 2

Procs == 1..NumProcs
Users == {"alice", "bob"}
Admins == {"admin"}
\* alice is a new user (signup gives 50 credits), bob has 10 credits left
StartBalance == [u \in Users |-> IF u = "alice" THEN 50 ELSE 10]
AddAmounts == {5}
Reasons == {"promo"}
PurchasePackages == {100}
PaymentIds == {"pi_1"}

\* ------------------------------------------------------- action catalog
ActionType ==
  {"UPLOAD_FILE", "GENERATE_REPORT", "EXPORT_REPORT", "API_KEY_ACTION",
   "LIST_FILES", "CREDIT_PURCHASE", "CREDIT_ADMIN_ADD"}

\* mutant: listing files is charged one credit
ACTION_COSTS_ListFilesCharged ==
  [a \in ActionType |->
     CASE a = "UPLOAD_FILE" -> 10
       [] a = "GENERATE_REPORT" -> 5
       [] a = "EXPORT_REPORT" -> 2
       [] a = "API_KEY_ACTION" -> 3
       [] a = "LIST_FILES" -> 1
       [] OTHER -> 0]

ACTION_COSTS ==
  [a \in ActionType |->
     CASE a = "UPLOAD_FILE" -> 10
       [] a = "GENERATE_REPORT" -> 5
       [] a = "EXPORT_REPORT" -> 2
       [] a = "API_KEY_ACTION" -> 3
       [] OTHER -> 0]

NoHash == <<>>

\* ----------------------------------------------------------------- state
VARIABLES
  credits,      \* User.credits, committed value per user
  lock,         \* per user: the process whose transaction wrote the document, or 0
  auditLog,     \* AuditLog collection, in insertion order
  payments,     \* Payment collection, in insertion order
  chainTxs,     \* BlockchainTransaction collection, in insertion order
  mirrorCalls,  \* observer: the invocations of BlockchainService.transferCredits
  ledger,       \* observer: every committed change of a balance
  pc,           \* per process: position in its current call
  call,         \* per process: arguments and locals of its current call
  nCalls,       \* calls started so far
  accounts,     \* User collection as signup builds it, in insertion order
  query,        \* the last history or summary request and its response
  requests,     \* per process: the route request it serves and its response
  refreshTokens,\* RefreshToken collection, in insertion order
  apiKeys,      \* ApiKey collection, by key
  userActive    \* User.isActive per user

\* the state that the credit and mirror operations leave alone
\* the state of the routes around the credit service
web == <<requests, refreshTokens, apiKeys, userActive>>

aside == <<accounts, query, web>>

\* the same without the request that a route keeps while it calls the service
besides == <<accounts, query, refreshTokens, apiKeys, userActive>>

vars ==
  <<credits, lock, auditLog, payments, chainTxs, mirrorCalls, ledger,
    pc, call, nCalls, accounts, query, requests, refreshTokens, apiKeys,
    userActive>>

NoQuery == [op |-> "none"]

\* status 0 marks a request that has not been answered yet
NoRequest == [route |-> "none", status |-> 200, call |-> 0]

InitWeb ==
  /\ requests = [p \in Procs |-> NoRequest]
  /\ refreshTokens = <<>>
  /\ apiKeys = <<>>
  /\ userActive = [u \in Users |-> TRUE]

IdleCall ==
  [op |-> "none", id |-> 0, userId |-> "alice", action |-> "LIST_FILES",
   cost |-> 0, amount |-> 0, adminId |-> "admin", reason |-> "",
   paymentId |-> "",
   read |-> 0, updated |-> 0, txHash |-> NoHash, threw |-> FALSE,
   overlapped |-> FALSE, success |-> FALSE, returned |-> 0, err |-> ""]

Init ==
  /\ credits = StartBalance
  /\ lock = [u \in Users |-> 0]
  /\ auditLog = <<>>
  /\ payments = <<>>
  /\ chainTxs = <<>>
  /\ mirrorCalls = {}
  /\ ledger = {}
  /\ pc = [p \in Procs |-> "idle"]
  /\ call = [p \in Procs |-> IdleCall]
  /\ nCalls = 0
  /\ accounts = <<>>
  /\ query = NoQuery
  /\ InitWeb

\* ------------------------------------------------------------- helpers
Free(p) == pc[p] \in {"idle", "done", "failed"}

\* a new request takes the first free handler slot
Takes(p) == Free(p) /\ \A q \in Procs : q < p => ~Free(q)

InFlightOn(u) == {q \in Procs : ~Free(q) /\ call[q].userId = u}

\* the calls of the other processes that are in flight on u get marked, and the
\* new call is marked when there is one
MarkOverlap(p, u, fresh) ==
  [q \in Procs |->
     IF q = p THEN [fresh EXCEPT !.overlapped = (InFlightOn(u) \ {p}) # {}]
     ELSE IF q \in InFlightOn(u) THEN [call[q] EXCEPT !.overlapped = TRUE]
     ELSE call[q]]

\* observer of the committed balances: one entry per change
LedgerAfter(u, newBalance, id) ==
  IF newBalance # credits[u]
  THEN ledger \cup {[userId |-> u, delta |-> newBalance - credits[u], call |-> id]}
  ELSE ledger

\* ------------------------------------------- CreditService.deductCredits
\* the value returned for a cost-0 action
FreeActionRemaining(u) == 0

\* mutant: the balance check is missing
NoBalanceCheck(balance, cost) == TRUE

\* the check  user.credits < cost  ->  InsufficientCreditsError
HasEnoughCredits(balance, cost) == ~(balance < cost)

\* cost lookup, the free-action return, the read of the user and the check
DeductCall(p, u, a) ==
  /\ Takes(p)
  /\ nCalls < MaxCalls
  /\ nCalls' = nCalls + 1
  /\ LET cost == ACTION_COSTS[a]
         base == [IdleCall EXCEPT !.op = "deduct", !.id = nCalls + 1,
                                  !.userId = u, !.action = a, !.cost = cost]
     IN IF cost = 0
        THEN /\ pc' = [pc EXCEPT ![p] = "done"]
             /\ call' = MarkOverlap(p, u,
                  [base EXCEPT !.success = TRUE,
                               !.returned = FreeActionRemaining(u)])
        ELSE IF ~HasEnoughCredits(credits[u], cost)
        THEN /\ pc' = [pc EXCEPT ![p] = "failed"]
             /\ call' = MarkOverlap(p, u,
                  [base EXCEPT !.read = credits[u],
                               !.err = "InsufficientCreditsError"])
        ELSE /\ pc' = [pc EXCEPT ![p] = "inc"]
             /\ call' = MarkOverlap(p, u, [base EXCEPT !.read = credits[u]])
  /\ UNCHANGED <<besides, credits, lock, auditLog, payments, chainTxs,
                 mirrorCalls, ledger>>

\* deductCredits called on its own, outside any route
DeductStart(p, u, a) == DeductCall(p, u, a) /\ UNCHANGED requests

\* User.findByIdAndUpdate(userId, {$inc: {credits: -cost}}, {new: true, session})
DeductInc(p) ==
  /\ pc[p] = "inc"
  /\ lock[call[p].userId] = 0
  /\ lock' = [lock EXCEPT ![call[p].userId] = p]
  /\ call' = [call EXCEPT ![p].updated = credits[call[p].userId] - call[p].cost]
  /\ pc' = [pc EXCEPT ![p] = "transfer"]
  /\ UNCHANGED <<aside, credits, auditLog, payments, chainTxs, mirrorCalls,
                 ledger, nCalls>>

\* ---------------------------------- BlockchainService.transferCredits
\* tx.hash: the chain gives every accepted transfer a hash of its own
NextHash == Len(chainTxs) + 1

\* the call is made, with credits = cost, and waits on the chain RPC
TransferBegin(p) ==
  /\ pc[p] = "transfer"
  /\ mirrorCalls' = mirrorCalls \cup
       {[n |-> Cardinality(mirrorCalls) + 1, userId |-> call[p].userId,
         credits |-> call[p].cost, call |-> call[p].id]}
  /\ pc' = [pc EXCEPT ![p] = "submitting"]
  /\ UNCHANGED <<aside, credits, lock, auditLog, payments, chainTxs, ledger,
                 call, nCalls>>

\* mutant: the catch rethrows
MirrorFailureRethrown == TRUE

\* deductCredits' catch around transferCredits logs and goes on: the failure
\* is not rethrown
MirrorFailurePropagates == FALSE

\* what a throw of transferCredits does to the calling deductCredits
TransferThrown(p) ==
  IF MirrorFailurePropagates
  THEN /\ call' = [call EXCEPT ![p].threw = TRUE, ![p].err = "BlockchainError"]
       /\ pc' = [pc EXCEPT ![p] = "failed"]
       /\ lock' = [lock EXCEPT ![call[p].userId] = 0]
  ELSE /\ call' = [call EXCEPT ![p].threw = TRUE]
       /\ pc' = [pc EXCEPT ![p] = "audit"]
       /\ lock' = lock

\* mutant: the record is stored before the throw
ChainTxsOnThrowKeepsRecord(p) ==
  Append(chainTxs,
    [txHash |-> NextHash, credits |-> call[p].cost, userId |-> call[p].userId,
     status |-> "pending", confirm |-> "ended", call |-> call[p].id])

\* the BlockchainTransaction collection after a throw of transferCredits: every
\* throwing statement comes before blockchainTx.save() has stored the record
ChainTxsOnThrow(p) == chainTxs

\* decimals(), transfer() or blockchainTx.save() throws: no record is stored and
\* transferCredits' catch rethrows
TransferThrows(p) ==
  /\ pc[p] = "submitting"
  /\ TransferThrown(p)
  /\ chainTxs' = ChainTxsOnThrow(p)
  /\ UNCHANGED <<aside, credits, auditLog, payments, mirrorCalls, ledger,
                 nCalls>>

\* mutant: transferCredits awaits confirmTransaction
ConfirmationIsAwaited == TRUE

\* transferCredits calls this.confirmTransaction(tx.hash).catch(...) without
\* await and returns tx.hash
ConfirmationAwaited == FALSE

\* transfer() accepted, the record saved as pending (no session: committed at
\* once), confirmTransaction started (field confirm: the state of its promise,
\* not a field of the stored document), tx.hash returned
TransferOk(p) ==
  /\ pc[p] = "submitting"
  /\ chainTxs' = Append(chainTxs,
       [txHash |-> NextHash, credits |-> call[p].cost,
        userId |-> call[p].userId, status |-> "pending",
        confirm |-> "running", call |-> call[p].id])
  /\ call' = [call EXCEPT ![p].txHash = <<NextHash>>]
  /\ pc' = [pc EXCEPT ![p] = IF ConfirmationAwaited THEN "confirming"
                             ELSE "audit"]
  /\ UNCHANGED <<aside, credits, lock, auditLog, payments, mirrorCalls,
                 ledger, nCalls>>

ConfirmStatuses == {"confirmed", "failed"}

\* mutant: the update is not written
ConfirmUpdateDropped(rec, status) == rec

\* confirmTransaction's BlockchainTransaction.findOneAndUpdate({txHash},
\* {status}): the filter is the txHash alone, the stored status is not read
ConfirmUpdate(rec, status) == [rec EXCEPT !.status = status]

\* the request that a step of confirmTransaction resumes: none, the promise is
\* not awaited
ConfirmResumes(i) ==
  IF ConfirmationAwaited
  THEN \E p \in Procs :
         /\ pc[p] = "confirming" /\ call[p].id = chainTxs[i].call
         /\ pc' = [pc EXCEPT ![p] = "audit"]
  ELSE pc' = pc

\* BlockchainService.confirmTransaction, run once for each stored record: the
\* receipt arrives (status 1: confirmed, else failed), or the wait throws, at
\* the latest when its timeout of 5 minutes expires, and the catch writes
\* failed. waitForTransaction(txHash, 1, 300000) asks for one confirmation, and
\* then it resolves with a receipt or rejects: the branch without a receipt is
\* the one of a wait for 0 confirmations
ConfirmTransaction(i, status) ==
  /\ i \in 1..Len(chainTxs)
  /\ chainTxs[i].confirm = "running"
  /\ chainTxs' = [chainTxs EXCEPT
                    ![i] = [ConfirmUpdate(chainTxs[i], status)
                              EXCEPT !.confirm = "ended"]]
  /\ ConfirmResumes(i)
  /\ UNCHANGED <<aside, credits, lock, auditLog, payments, mirrorCalls, ledger,
                 call, nCalls>>

\* mutant: creditsAfter is taken from the user read before the debit
DeductAuditEntryStale(p) ==
  [userId |-> call[p].userId, action |-> call[p].action, cost |-> call[p].cost,
   creditsAfter |-> call[p].read, txHash |-> call[p].txHash,
   metadata |-> <<>>, createdAt |-> Len(auditLog) + 1,
   call |-> call[p].id]

\* ------------------------------ deductCredits: audit entry and commit
DeductAuditEntry(p) ==
  [userId |-> call[p].userId, action |-> call[p].action, cost |-> call[p].cost,
   creditsAfter |-> call[p].updated, txHash |-> call[p].txHash,
   metadata |-> <<>>, createdAt |-> Len(auditLog) + 1,
   call |-> call[p].id]

\* auditLog.save({session}) succeeds, withTransaction commits: the $inc and the
\* audit entry become visible together; result returned
DeductSave(p, t) ==
  /\ pc[p] = "audit"
  /\ credits' = [credits EXCEPT ![call[p].userId] = call[p].updated]
  /\ ledger' = LedgerAfter(call[p].userId, call[p].updated, call[p].id)
  /\ auditLog' = Append(auditLog, [DeductAuditEntry(p) EXCEPT !.createdAt = t])
  /\ lock' = [lock EXCEPT ![call[p].userId] = 0]
  /\ call' = [call EXCEPT ![p].success = TRUE, ![p].returned = call[p].updated]
  /\ pc' = [pc EXCEPT ![p] = "done"]
  /\ UNCHANGED <<aside, payments, chainTxs, mirrorCalls, nCalls>>

\* the save at a time later than every earlier save
DeductCommit(p) == DeductSave(p, Len(auditLog) + 1)

\* mutant: the $inc is made without the session and survives the abort
DeductAbortKeepsDebit(p) == call[p].updated

\* the balance an aborted deduct transaction leaves
DeductAbortBalance(p) == credits[call[p].userId]

\* auditLog.save({session}) throws: withTransaction aborts, the error propagates
DeductAuditFail(p) ==
  /\ pc[p] = "audit"
  /\ credits' = [credits EXCEPT ![call[p].userId] = DeductAbortBalance(p)]
  /\ ledger' = LedgerAfter(call[p].userId, DeductAbortBalance(p), call[p].id)
  /\ lock' = [lock EXCEPT ![call[p].userId] = 0]
  /\ call' = [call EXCEPT ![p].err = "AuditWriteError"]
  /\ pc' = [pc EXCEPT ![p] = "failed"]
  /\ UNCHANGED <<aside, auditLog, payments, chainTxs, mirrorCalls, nCalls>>

\* ---------------------------------------------- CreditService.addCredits
\* User.findById: the user exists
AddStart(p, u, amount, admin, reason) ==
  /\ Takes(p)
  /\ nCalls < MaxCalls
  /\ nCalls' = nCalls + 1
  /\ call' = MarkOverlap(p, u,
       [IdleCall EXCEPT !.op = "add", !.id = nCalls + 1, !.userId = u,
                        !.action = "CREDIT_ADMIN_ADD", !.amount = amount,
                        !.adminId = admin, !.reason = reason,
                        !.read = credits[u]])
  /\ pc' = [pc EXCEPT ![p] = "add_inc"]
  /\ UNCHANGED <<aside, credits, lock, auditLog, payments, chainTxs,
                 mirrorCalls, ledger>>

\* User.findByIdAndUpdate(userId, {$inc: {credits: amount}}, {new: true}): no
\* session, committed at once
AddInc(p) ==
  /\ pc[p] = "add_inc"
  /\ lock[call[p].userId] = 0
  /\ credits' = [credits EXCEPT ![call[p].userId] = @ + call[p].amount]
  /\ ledger' = LedgerAfter(call[p].userId,
                           credits[call[p].userId] + call[p].amount, call[p].id)
  /\ call' = [call EXCEPT ![p].updated = credits[call[p].userId] + call[p].amount]
  /\ pc' = [pc EXCEPT ![p] = "add_audit"]
  /\ UNCHANGED <<aside, lock, auditLog, payments, chainTxs, mirrorCalls,
                 nCalls>>

\* the entry is filed under the admin's id; the target is in its metadata
AddAuditEntry(p) ==
  [userId |-> call[p].adminId, action |-> "CREDIT_ADMIN_ADD",
   cost |-> 0 - call[p].amount, creditsAfter |-> call[p].updated,
   txHash |-> NoHash,
   metadata |-> [targetUserId |-> call[p].userId, reason |-> call[p].reason,
                 amount |-> call[p].amount],
   createdAt |-> Len(auditLog) + 1, call |-> call[p].id]

\* auditLog.save() succeeds; {success, newBalance} returned
AddAuditSave(p) ==
  /\ pc[p] = "add_audit"
  /\ auditLog' = Append(auditLog, AddAuditEntry(p))
  /\ call' = [call EXCEPT ![p].success = TRUE, ![p].returned = call[p].updated]
  /\ pc' = [pc EXCEPT ![p] = "done"]
  /\ UNCHANGED <<aside, credits, lock, payments, chainTxs, mirrorCalls, ledger,
                 nCalls>>

\* auditLog.save() throws: the error propagates, the $inc stays
AddAuditFail(p) ==
  /\ pc[p] = "add_audit"
  /\ call' = [call EXCEPT ![p].err = "AuditWriteError"]
  /\ pc' = [pc EXCEPT ![p] = "failed"]
  /\ UNCHANGED <<aside, credits, lock, auditLog, payments, chainTxs,
                 mirrorCalls, ledger, nCalls>>

\* ----------------------------------------- CreditService.purchaseCredits
PurchaseCall(p, u, n, pid) ==
  /\ Takes(p)
  /\ nCalls < MaxCalls
  /\ nCalls' = nCalls + 1
  /\ call' = MarkOverlap(p, u,
       [IdleCall EXCEPT !.op = "purchase", !.id = nCalls + 1, !.userId = u,
                        !.action = "CREDIT_PURCHASE", !.amount = n,
                        !.paymentId = pid, !.read = credits[u]])
  /\ pc' = [pc EXCEPT ![p] = "pur_inc"]
  /\ UNCHANGED <<besides, credits, lock, auditLog, payments, chainTxs,
                 mirrorCalls, ledger>>

\* purchaseCredits called on its own, outside any route
PurchaseStart(p, u, n, pid) == PurchaseCall(p, u, n, pid) /\ UNCHANGED requests

\* User.findByIdAndUpdate(userId, {$inc: {credits}}, {new: true, session})
PurchaseInc(p) ==
  /\ pc[p] = "pur_inc"
  /\ lock[call[p].userId] = 0
  /\ lock' = [lock EXCEPT ![call[p].userId] = p]
  /\ call' = [call EXCEPT ![p].updated = credits[call[p].userId] + call[p].amount]
  /\ pc' = [pc EXCEPT ![p] = "pur_writes"]
  /\ UNCHANGED <<aside, credits, auditLog, payments, chainTxs, mirrorCalls,
                 ledger, nCalls>>

PurchasePayment(p) ==
  [userId |-> call[p].userId, credits |-> call[p].amount,
   transactionId |-> call[p].paymentId, status |-> "completed",
   call |-> call[p].id]

PurchaseAuditEntry(p) ==
  [userId |-> call[p].userId, action |-> "CREDIT_PURCHASE",
   cost |-> 0 - call[p].amount, creditsAfter |-> call[p].updated,
   txHash |-> NoHash, metadata |-> [paymentId |-> call[p].paymentId],
   createdAt |-> Len(auditLog) + 1, call |-> call[p].id]

\* payment.save({session}) and auditLog.save({session}) succeed, withTransaction
\* commits: the three writes become visible together
PurchaseCommit(p) ==
  /\ pc[p] = "pur_writes"
  /\ credits' = [credits EXCEPT ![call[p].userId] = call[p].updated]
  /\ ledger' = LedgerAfter(call[p].userId, call[p].updated, call[p].id)
  /\ payments' = Append(payments, PurchasePayment(p))
  /\ auditLog' = Append(auditLog, PurchaseAuditEntry(p))
  /\ lock' = [lock EXCEPT ![call[p].userId] = 0]
  /\ call' = [call EXCEPT ![p].success = TRUE, ![p].returned = call[p].updated]
  /\ pc' = [pc EXCEPT ![p] = "done"]
  /\ UNCHANGED <<aside, chainTxs, mirrorCalls, nCalls>>

\* mutant: payment.save() is made without the session and survives the abort
PurchaseAbortKeepsPayment(p, failed) ==
  IF failed = "AuditWriteError" THEN Append(payments, PurchasePayment(p))
  ELSE payments

\* the Payment records an aborted purchase transaction leaves, when the write
\* that threw was `failed`
PurchaseAbortPayments(p, failed) == payments

\* the balance an aborted purchase transaction leaves
PurchaseAbortBalance(p) == credits[call[p].userId]

\* payment.save({session}) or auditLog.save({session}) throws: withTransaction
\* aborts, the error propagates
PurchaseFail(p, failed) ==
  /\ pc[p] = "pur_writes"
  /\ credits' = [credits EXCEPT ![call[p].userId] = PurchaseAbortBalance(p)]
  /\ ledger' = LedgerAfter(call[p].userId, PurchaseAbortBalance(p), call[p].id)
  /\ payments' = PurchaseAbortPayments(p, failed)
  /\ lock' = [lock EXCEPT ![call[p].userId] = 0]
  /\ call' = [call EXCEPT ![p].err = failed]
  /\ pc' = [pc EXCEPT ![p] = "failed"]
  /\ UNCHANGED <<aside, auditLog, chainTxs, mirrorCalls, nCalls>>

\* ---------------------------------------------------------- specification
\* ------------------------------------------------------------- signup
\* Accounts are created by POST /signup (and, in the same shape, by the Google
\* OAuth callback): the credit service looks a user up and creates none.
MaxRequests == 4
SignupCredits == 50

AccountsOf(u) == {i \in 1..Len(accounts) : accounts[i].userId = u}

\* mutant: the email field carries no unique index
NoEmailUniqueIndex == FALSE

\* UserSchema: email: {type: String, required: true, unique: true}
EmailUniqueIndex == TRUE

\* User.findOne({email}): ConflictError when a document is found
SignupStart(p, e) ==
  /\ Takes(p)
  /\ nCalls < MaxRequests
  /\ nCalls' = nCalls + 1
  /\ call' = [call EXCEPT ![p] =
       [IdleCall EXCEPT !.op = "signup", !.id = nCalls + 1, !.userId = e,
                        !.err = IF AccountsOf(e) # {} THEN "ConflictError"
                                ELSE ""]]
  /\ pc' = [pc EXCEPT ![p] = IF AccountsOf(e) # {} THEN "failed"
                             ELSE "su_save"]
  /\ UNCHANGED <<credits, lock, auditLog, payments, chainTxs, mirrorCalls,
                 ledger, accounts, query, web>>

\* new User({..., credits: 50}).save(): the unique index on email rejects the
\* insert when a document with this email has been stored meanwhile
SignupSave(p) ==
  /\ pc[p] = "su_save"
  /\ IF EmailUniqueIndex /\ AccountsOf(call[p].userId) # {}
     THEN /\ accounts' = accounts
          /\ call' = [call EXCEPT ![p].err = "DuplicateKeyError"]
          /\ pc' = [pc EXCEPT ![p] = "failed"]
     ELSE /\ accounts' = Append(accounts,
               [userId |-> call[p].userId, credits |-> SignupCredits,
                spent |-> 0, by |-> call[p].op])
          /\ call' = [call EXCEPT ![p].success = TRUE,
                                  ![p].returned = SignupCredits]
          /\ pc' = [pc EXCEPT ![p] = "done"]
  /\ UNCHANGED <<credits, lock, auditLog, payments, chainTxs, mirrorCalls,
                 ledger, nCalls, query, web>>

\* the document that User.findById gives for u
FirstAccount(u) == CHOOSE i \in AccountsOf(u) : \A j \in AccountsOf(u) : i <= j

\* deductCredits(u, a) as far as the User collection goes: NotFoundError for an
\* unknown user, InsufficientCreditsError, or the $inc of -cost (spent: observer
\* of the debits of the document)
AccessCredits(p, u, a) ==
  /\ Takes(p)
  /\ nCalls < MaxRequests
  /\ nCalls' = nCalls + 1
  /\ LET base == [IdleCall EXCEPT !.op = "deduct", !.id = nCalls + 1,
                                  !.userId = u, !.action = a,
                                  !.cost = ACTION_COSTS[a]]
     IN  IF AccountsOf(u) = {}
         THEN /\ call' = [call EXCEPT ![p] =
                            [base EXCEPT !.err = "NotFoundError"]]
              /\ pc' = [pc EXCEPT ![p] = "failed"]
              /\ accounts' = accounts
         ELSE LET i == FirstAccount(u)
                  balance == accounts[i].credits
              IN  IF HasEnoughCredits(balance, base.cost)
                  THEN /\ accounts' =
                            [accounts EXCEPT
                               ![i].credits = balance - base.cost,
                               ![i].spent = @ + base.cost]
                       /\ call' = [call EXCEPT ![p] =
                            [base EXCEPT !.success = TRUE,
                                         !.returned = balance - base.cost]]
                       /\ pc' = [pc EXCEPT ![p] = "done"]
                  ELSE /\ accounts' = accounts
                       /\ call' = [call EXCEPT ![p] =
                            [base EXCEPT !.err = "InsufficientCreditsError"]]
                       /\ pc' = [pc EXCEPT ![p] = "failed"]
  /\ UNCHANGED <<credits, lock, auditLog, payments, chainTxs, mirrorCalls,
                 ledger, query, web>>

\* ------------------------------------------------- admin: update a user
\* the credits values an admin sends (updateUser: integer, min 0)
UpdatedCredits == {0, 75}

\* PUT /users/:id: User.findByIdAndUpdate(userId, req.body, {new: true})
\* (prisma: user.update({where: {id}, data: updates})) with credits in the body:
\* one session-less write, committed at once, no AuditLog document
AdminUpdateUser(u, v) ==
  /\ nCalls < MaxCalls
  /\ lock[u] = 0
  /\ nCalls' = nCalls + 1
  /\ credits' = [credits EXCEPT ![u] = v]
  /\ ledger' = LedgerAfter(u, v, nCalls + 1)
  /\ UNCHANGED <<aside, lock, auditLog, payments, chainTxs, mirrorCalls,
                 pc, call>>

\* ------------------------------------------------ history and summary
MaxEntries == 5
MaxCosts == 4
HistoryCosts == {10, 0 - 100}
SummaryCosts == {10, 5, 0 - 100, 2}
Limits == {1, 2, 50}
Offsets == {0, 1, 4}

\* the action an entry of cost c is written with
ActionOfCost(c) ==
  IF c < 0 THEN "CREDIT_PURCHASE"
  ELSE CHOOSE a \in ActionType : ACTION_COSTS[a] = c

\* the audit logs of up to maxLen entries inserted one after the other
\* (createdAt: the time of the insert), of any users and any of the costs
LogsOf(maxLen, costs) ==
  UNION {{[i \in 1..n |->
             [userId |-> f[i][1], action |-> ActionOfCost(f[i][2]),
              cost |-> f[i][2], createdAt |-> i]] :
           f \in [1..n -> Users \X costs]} : n \in 0..maxLen}

\* AuditLog.find({userId}), in natural order
EntriesOf(u) == SelectSeq(auditLog, LAMBDA e : e.userId = u)

\* .sort({createdAt: -1}) (prisma: orderBy: {createdAt: 'desc'})
InsertDesc(e, sorted) ==
  LET k == Cardinality({i \in 1..Len(sorted) :
                          sorted[i].createdAt > e.createdAt})
  IN  SubSeq(sorted, 1, k) \o <<e>> \o SubSeq(sorted, k + 1, Len(sorted))

RECURSIVE SortByCreatedAtDesc(_)
SortByCreatedAtDesc(s) ==
  IF s = <<>> THEN <<>>
  ELSE InsertDesc(Head(s), SortByCreatedAtDesc(Tail(s)))

Skip(s, n) == SubSeq(s, n + 1, Len(s))
Take(s, n) == SubSeq(s, 1, IF n < Len(s) THEN n ELSE Len(s))

\* mutant: the limit is applied before the skip
HistoryPageLimitFirst(sorted, limit, offset) == Skip(Take(sorted, limit), offset)

\* .limit(limit).skip(offset) on a query (prisma: take, skip): the cursor
\* skips, then limits, whatever the order of the two calls
HistoryPage(sorted, limit, offset) == Take(Skip(sorted, offset), limit)

RECURSIVE SumCost(_)
SumCost(s) == IF s = <<>> THEN 0 ELSE Head(s).cost + SumCost(Tail(s))

Abs(x) == IF x < 0 THEN 0 - x ELSE x

RECURSIVE SumAbsCost(_)
SumAbsCost(s) == IF s = <<>> THEN 0 ELSE Abs(Head(s).cost) + SumAbsCost(Tail(s))

\* aggregate([{$match: {userId, cost: {$gt: 0}}}, {$group: {$sum: '$cost'}}])
totalSpentResult(u) == SumCost(SelectSeq(EntriesOf(u), LAMBDA e : e.cost > 0))

\* aggregate([{$match: {userId, cost: {$lt: 0}}},
\*            {$group: {$sum: {$abs: '$cost'}}}])
totalPurchasedResult(u) ==
  SumAbsCost(SelectSeq(EntriesOf(u), LAMBDA e : e.cost < 0))

\* CreditService.getUsageHistory (mongoose; getCreditHistory is its alias)
getUsageHistory(u, limit, offset) ==
  [history |-> HistoryPage(SortByCreatedAtDesc(EntriesOf(u)), limit, offset),
   total |-> Len(EntriesOf(u)),
   summary |-> [totalSpent |-> totalSpentResult(u),
                totalPurchased |-> totalPurchasedResult(u),
                currentBalance |-> credits[u]]]

\* the third aggregate of getUsageStatistics: positive costs grouped by action
actionBreakdown(u) ==
  LET used == SelectSeq(EntriesOf(u), LAMBDA e : e.cost > 0)
  IN  [a \in {used[i].action : i \in 1..Len(used)} |->
         [count |-> Len(SelectSeq(used, LAMBDA e : e.action = a)),
          totalCost |-> SumCost(SelectSeq(used, LAMBDA e : e.action = a))]]

\* CreditService.getUsageStatistics (mongoose; getCreditStats is its alias)
getUsageStatistics(u) ==
  [totalCreditsUsed |-> totalSpentResult(u),
   creditsPurchased |-> totalPurchasedResult(u),
   currentBalance |-> credits[u],
   actionBreakdown |-> actionBreakdown(u)]

\* CreditService.getCreditStats (prisma): stats sums the costs of all the
\* user's entries, purchases those of the two credit actions
getCreditStats(u) ==
  LET stats == SumCost(EntriesOf(u))
      purchases ==
        SumCost(SelectSeq(EntriesOf(u),
                  LAMBDA e : e.action \in {"CREDIT_PURCHASE",
                                           "CREDIT_ADMIN_ADD"}))
  IN  [totalSpent |-> Abs(stats) - Abs(purchases),
       totalPurchased |-> Abs(purchases),
       currentBalance |-> credits[u],
       transactionCount |-> Len(EntriesOf(u))]

\* GET /credits/history
History(u, limit, offset) ==
  /\ query' = [op |-> "history", userId |-> u, limit |-> limit,
               offset |-> offset, response |-> getUsageHistory(u, limit, offset)]
  /\ UNCHANGED <<credits, lock, auditLog, payments, chainTxs, mirrorCalls,
                 ledger, pc, call, nCalls, accounts, web>>

\* GET /credits/stats on the mongoose service
Statistics(u) ==
  /\ query' = [op |-> "statistics", userId |-> u,
               response |-> getUsageStatistics(u)]
  /\ UNCHANGED <<credits, lock, auditLog, payments, chainTxs, mirrorCalls,
                 ledger, pc, call, nCalls, accounts, web>>

\* GET /credits/stats on the prisma service
Stats(u) ==
  /\ query' = [op |-> "stats", userId |-> u, response |-> getCreditStats(u)]
  /\ UNCHANGED <<credits, lock, auditLog, payments, chainTxs, mirrorCalls,
                 ledger, pc, call, nCalls, accounts, web>>

\* the state with a stored audit log and no request in progress
InitWithLogs(logs) ==
  /\ credits = StartBalance
  /\ lock = [u \in Users |-> 0]
  /\ auditLog \in logs
  /\ payments = <<>>
  /\ chainTxs = <<>>
  /\ mirrorCalls = {}
  /\ ledger = {}
  /\ pc = [p \in Procs |-> "idle"]
  /\ call = [p \in Procs |-> IdleCall]
  /\ nCalls = 0
  /\ accounts = <<>>
  /\ query = NoQuery
  /\ InitWeb

InitHistory == InitWithLogs(LogsOf(MaxEntries, HistoryCosts))

InitSummary == InitWithLogs(LogsOf(MaxCosts, SummaryCosts))

\* ------------------------------------------- createdAt and the clock
RECURSIVE LastCreatedAt(_)
\* the latest createdAt among the first n stored entries
LastCreatedAt(n) ==
  IF n = 0 THEN 0
  ELSE IF auditLog[n].createdAt > LastCreatedAt(n - 1)
       THEN auditLog[n].createdAt ELSE LastCreatedAt(n - 1)

\* what Date.now() can give the timestamps plugin at a save: the millisecond
\* of the latest earlier save, or a later one
ClockReads ==
  {t \in {LastCreatedAt(Len(auditLog)), LastCreatedAt(Len(auditLog)) + 1} :
     t > 0}

RECURSIVE DescOrders(_)
\* the orders in which a find sorted by createdAt descending can return the
\* documents s: documents of equal createdAt come in any order
DescOrders(s) ==
  IF s = <<>> THEN {<<>>}
  ELSE UNION {{<<s[i]>> \o rest :
                  rest \in DescOrders(SubSeq(s, 1, i - 1) \o
                                      SubSeq(s, i + 1, Len(s)))} :
                i \in {j \in 1..Len(s) :
                         \A k \in 1..Len(s) :
                           s[k].createdAt <= s[j].createdAt}}

\* getUsageHistory on a log whose entries may share a createdAt
HistoryAnyOrder(u, limit, offset) ==
  /\ \E sorted \in DescOrders(EntriesOf(u)) :
       query' = [op |-> "history", userId |-> u, limit |-> limit,
                 offset |-> offset,
                 response |->
                   [getUsageHistory(u, limit, offset) EXCEPT
                      !.history = HistoryPage(sorted, limit, offset)]]
  /\ UNCHANGED <<credits, lock, auditLog, payments, chainTxs, mirrorCalls,
                 ledger, pc, call, nCalls, accounts, web>>

\* ------------------------------------------------ payments: POST /confirm
Providers == {"stripe", "razorpay"}
ProviderPaymentIds == {"pi_1", "pi_2", "pi_3"}

\* the status with which a provider reports a completed payment
CompletedStatus(provider) == IF provider = "stripe" THEN "succeeded" ELSE "paid"

\* what stripe.paymentIntents.retrieve and razorpay.orders.fetch answer: pi_1
\* is a completed payment of alice, pi_2 a payment of alice that is not
\* completed, pi_3 a completed payment of bob; userId and credits are the
\* metadata (notes) written when the payment was created
ProviderPayments ==
  [provider \in Providers |->
     [id \in ProviderPaymentIds |->
        [status |-> IF id = "pi_2"
                    THEN (IF provider = "stripe" THEN "processing" ELSE "created")
                    ELSE CompletedStatus(provider),
         userId |-> IF id = "pi_3" THEN "bob" ELSE "alice",
         credits |-> 100]]]

PaymentCompleted(provider, payment) == payment.status = CompletedStatus(provider)

PaymentOfAnyUser(payment, u) == TRUE

\* paymentIntent.metadata.userId !== userId, order.notes?.userId !== userId
PaymentBelongsTo(payment, u) == payment.userId = u

ConfirmAnswer(p, u, id, provider, status, c) ==
  [requests EXCEPT ![p] =
     [route |-> "confirm", userId |-> u, paymentId |-> id,
      provider |-> provider, status |-> status, call |-> c]]

\* POST /confirm of the authenticated user u: the route asks the provider for
\* the payment, answers 400 when it is not completed and 403 when it is of
\* another user, and calls purchaseCredits otherwise (status 200 is the answer
\* it gives once purchaseCredits has returned); a refused request counts in
\* nCalls, which bounds the requests
ConfirmPayment(p, u, id, provider) ==
  LET payment == ProviderPayments[provider][id]
      refused(status) ==
        /\ Takes(p)
        /\ nCalls < MaxCalls
        /\ nCalls' = nCalls + 1
        /\ requests' = ConfirmAnswer(p, u, id, provider, status, 0)
        /\ UNCHANGED <<besides, credits, lock, auditLog, payments, chainTxs,
                       mirrorCalls, ledger, pc, call>>
  IN  IF ~PaymentCompleted(provider, payment) THEN refused(400)
      ELSE IF ~PaymentBelongsTo(payment, u) THEN refused(403)
      ELSE /\ PurchaseCall(p, u, payment.credits, id)
           /\ requests' = ConfirmAnswer(p, u, id, provider, 200, nCalls + 1)

\* ------------------------- paid routes: report download, service metadata
\* res_1 is a report of alice; res_0 does not exist
Resources == {"res_0", "res_1"}

\* prisma.report.findFirst / prisma.file.findFirst ({id, userId})
ResourceFound(r, u) == r = "res_1" /\ u = "alice"

\* the slot p serves no route request that still waits for its answer
Answered(p) == requests[p].status # 0

RouteRequest(p, route, u, r, status, c) ==
  [requests EXCEPT ![p] =
     [route |-> route, userId |-> u, resource |-> r, status |-> status,
      call |-> c]]

\* GET /reports/:reportId/download: the lookup comes first and throws
\* NotFoundError, deductCredits(EXPORT_REPORT) is called for a report found;
\* a request answered NotFound counts in nCalls, which bounds the requests
DownloadReport(p, u, r) ==
  /\ Answered(p)
  /\ IF ~ResourceFound(r, u)
     THEN /\ Takes(p)
          /\ nCalls < MaxCalls
          /\ nCalls' = nCalls + 1
          /\ requests' = RouteRequest(p, "download", u, r, 404, 0)
          /\ UNCHANGED <<besides, credits, lock, auditLog, payments, chainTxs,
                         mirrorCalls, ledger, pc, call>>
     ELSE /\ DeductCall(p, u, "EXPORT_REPORT")
          /\ requests' = RouteRequest(p, "download", u, r, 0, nCalls + 1)

\* GET /metadata/:resourceId: deductCredits(API_KEY_ACTION) is called first
FetchMetadata(p, u, r) ==
  /\ Answered(p)
  /\ DeductCall(p, u, "API_KEY_ACTION")
  /\ requests' = RouteRequest(p, "metadata", u, r, 0, nCalls + 1)

\* the rest of both routes once deductCredits is over: its error goes to
\* next(error) (402 for InsufficientCreditsError, 500 otherwise); the metadata
\* route looks the resource up now and throws NotFoundError
RouteRespond(p) ==
  /\ ~Answered(p)
  /\ pc[p] \in {"done", "failed"}
  /\ LET status == IF pc[p] = "failed"
                   THEN (IF call[p].err = "InsufficientCreditsError"
                         THEN 402 ELSE 500)
                   ELSE IF /\ requests[p].route = "metadata"
                           /\ ~ResourceFound(requests[p].resource,
                                             requests[p].userId)
                   THEN 404
                   ELSE 200
     IN  requests' = [requests EXCEPT ![p].status = status]
  /\ UNCHANGED <<besides, credits, lock, auditLog, payments, chainTxs,
                 mirrorCalls, ledger, pc, call, nCalls>>

\* ------------------------------------- PasswordService.isPasswordStrong
UpperCase ==
  {"A", "B", "C", "D", "E", "F", "G", "H", "I", "J", "K", "L", "M",
   "N", "O", "P", "Q", "R", "S", "T", "U", "V", "W", "X", "Y", "Z"}

LowerCase ==
  {"a", "b", "c", "d", "e", "f", "g", "h", "i", "j", "k", "l", "m",
   "n", "o", "p", "q", "r", "s", "t", "u", "v", "w", "x", "y", "z"}

Digits == {"0", "1", "2", "3", "4", "5", "6", "7", "8", "9"}

\* the class [!@#$%^&*()_+\-=\[\]{};':"\\|,.<>\/?]
SpecialChars ==
  {"!", "@", "#", "$", "%", "^", "&", "*", "(", ")", "_", "+", "-", "=",
   "[", "]", "{", "}", ";", "'", ":", "\"", "\\", "|", ",", ".", "<", ">",
   "/", "?"}

\* regex.test(password): some character of the password is in the class
Test(class, password) == \E i \in 1..Len(password) : password[i] \in class

TooShortOffByOne(password) == Len(password) <= 8

\* password.length < 8
TooShort(password) == Len(password) < 8

\* errors.push(message) when the rule is violated
Push(errors, violated, message) ==
  IF violated THEN Append(errors, message) ELSE errors

isPasswordStrong(password) ==
  LET e1 == Push(<<>>, TooShort(password),
                 "Password must be at least 8 characters long")
      e2 == Push(e1, ~Test(UpperCase, password),
                 "Password must contain at least one uppercase letter")
      e3 == Push(e2, ~Test(LowerCase, password),
                 "Password must contain at least one lowercase letter")
      e4 == Push(e3, ~Test(Digits, password),
                 "Password must contain at least one number")
      e5 == Push(e4, ~Test(SpecialChars, password),
                 "Password must contain at least one special character")
  IN  [isValid |-> Len(e5) = 0, errors |-> e5]

\* the passwords tried: up to MaxPrefix characters of one's choice followed
\* by up to MaxPad repetitions of one character; "~" is in none of the four
\* classes
MaxPrefix == 4
MaxPad == 5
PasswordChars == {"A", "a", "1", "!", "~"}

RECURSIVE Repeat(_, _)
Repeat(c, n) == IF n = 0 THEN <<>> ELSE <<c>> \o Repeat(c, n - 1)

NoAnswer == [isValid |-> FALSE, errors |-> <<"no answer">>]

InitPassword ==
  /\ credits = StartBalance
  /\ lock = [u \in Users |-> 0]
  /\ auditLog = <<>>
  /\ payments = <<>>
  /\ chainTxs = <<>>
  /\ mirrorCalls = {}
  /\ ledger = {}
  /\ pc = [p \in Procs |-> "idle"]
  /\ call = [p \in Procs |-> IdleCall]
  /\ nCalls = 0
  /\ accounts = <<>>
  /\ \E k \in 0..MaxPrefix, c \in PasswordChars, n \in 0..MaxPad :
       \E prefix \in [1..k -> PasswordChars] :
         query = [op |-> "password", password |-> prefix \o Repeat(c, n),
                  response |-> NoAnswer]
  /\ InitWeb

CheckPassword ==
  /\ query.op = "password"
  /\ query.response = NoAnswer
  /\ query' = [query EXCEPT !.response = isPasswordStrong(query.password)]
  /\ UNCHANGED <<credits, lock, auditLog, payments, chainTxs, mirrorCalls,
                 ledger, pc, call, nCalls, accounts, web>>

\* ------------------------------------- refresh tokens: POST /refresh
\* the refresh tokens ever issued; a token is its position in refreshTokens
MaxTokens == 3

\* TokenService.isRefreshTokenValid: the token is stored and not revoked
isRefreshTokenValid(t) ==
  t \in 1..Len(refreshTokens) /\ ~refreshTokens[t].revoked

\* TokenService.storeRefreshToken; from is the token exchanged for this one
\* (0 at login), kept for the properties only
storeRefreshToken(u, from) ==
  Append(refreshTokens, [userId |-> u, revoked |-> FALSE, from |-> from])

\* TokenService.revokeRefreshToken: updateMany({token}, {revoked: true})
revokeRefreshToken(t) == [refreshTokens EXCEPT ![t].revoked = TRUE]

\* TokenService.revokeAllUserTokens: updateMany({userId}, {revoked: true})
revokeAllUserTokens(u) ==
  [t \in 1..Len(refreshTokens) |->
     IF refreshTokens[t].userId = u
     THEN [refreshTokens[t] EXCEPT !.revoked = TRUE]
     ELSE refreshTokens[t]]

RefreshRequest(p, t, status) ==
  [requests EXCEPT ![p] =
     [route |-> "refresh", token |-> t, status |-> status, call |-> 0]]

\* POST /login: a new refresh token is stored for the user
Login(u) ==
  /\ Len(refreshTokens) < MaxTokens
  /\ refreshTokens' = storeRefreshToken(u, 0)
  /\ UNCHANGED <<credits, lock, auditLog, payments, chainTxs, mirrorCalls,
                 ledger, pc, call, nCalls, accounts, query, requests, apiKeys,
                 userActive>>

\* POST /refresh up to the user lookup: the token was signed by the server (it
\* is one of the issued ones), isRefreshTokenValid reads it, the user is looked
\* up; AuthenticationError when the token is revoked or the user inactive
RefreshStart(p, t) ==
  /\ Takes(p)
  /\ nCalls < MaxCalls
  /\ nCalls' = nCalls + 1
  /\ t \in 1..Len(refreshTokens)
  /\ IF isRefreshTokenValid(t) /\ userActive[refreshTokens[t].userId]
     THEN /\ pc' = [pc EXCEPT ![p] = "rf_revoke"]
          /\ requests' = RefreshRequest(p, t, 0)
     ELSE /\ pc' = [pc EXCEPT ![p] = "failed"]
          /\ requests' = RefreshRequest(p, t, 401)
  /\ UNCHANGED <<credits, lock, auditLog, payments, chainTxs, mirrorCalls,
                 ledger, call, accounts, query, refreshTokens, apiKeys,
                 userActive>>

\* await TokenService.revokeRefreshToken(refreshToken)
RefreshRevoke(p) ==
  /\ pc[p] = "rf_revoke"
  /\ refreshTokens' = revokeRefreshToken(requests[p].token)
  /\ pc' = [pc EXCEPT ![p] = "rf_store"]
  /\ UNCHANGED <<credits, lock, auditLog, payments, chainTxs, mirrorCalls,
                 ledger, call, nCalls, accounts, query, requests, apiKeys,
                 userActive>>

\* new tokens are generated, storeRefreshToken saves the new refresh token and
\* the route answers with both
RefreshStore(p) ==
  /\ pc[p] = "rf_store"
  /\ Len(refreshTokens) < MaxTokens
  /\ refreshTokens' =
       storeRefreshToken(refreshTokens[requests[p].token].userId,
                         requests[p].token)
  /\ pc' = [pc EXCEPT ![p] = "done"]
  /\ requests' = [requests EXCEPT ![p].status = 200]
  /\ UNCHANGED <<credits, lock, auditLog, payments, chainTxs, mirrorCalls,
                 ledger, call, nCalls, accounts, query, apiKeys, userActive>>

\* the new refresh token is the signed (user, second of issue): signed in the
\* same second as a stored token of the user it is that very string, and the
\* save fails on the unique index of token
RefreshStoreDuplicate(p) ==
  /\ pc[p] = "rf_store"
  /\ \E n \in 1..Len(refreshTokens) :
       refreshTokens[n].userId = refreshTokens[requests[p].token].userId
  /\ pc' = [pc EXCEPT ![p] = "failed"]
  /\ requests' = [requests EXCEPT ![p].status = 500]
  /\ UNCHANGED <<credits, lock, auditLog, payments, chainTxs, mirrorCalls,
                 ledger, call, nCalls, accounts, query, refreshTokens, apiKeys,
                 userActive>>

\* POST /logout: revokeRefreshToken(refreshToken)
Logout(t) ==
  /\ t \in 1..Len(refreshTokens)
  /\ refreshTokens' = revokeRefreshToken(t)
  /\ UNCHANGED <<credits, lock, auditLog, payments, chainTxs, mirrorCalls,
                 ledger, pc, call, nCalls, accounts, query, requests, apiKeys,
                 userActive>>

\* POST /admin/users/:userId/revoke-tokens: revokeAllUserTokens(userId)
RevokeAllTokens(u) ==
  /\ refreshTokens' = revokeAllUserTokens(u)
  /\ UNCHANGED <<credits, lock, auditLog, payments, chainTxs, mirrorCalls,
                 ledger, pc, call, nCalls, accounts, query, requests, apiKeys,
                 userActive>>

\* ------------------------------------------- API keys: authenticateApiKey
ApiKeyNames == {"sk_1", "sk_2"}

\* the two authenticateApiKey middlewares of the repository
Middlewares == {"prisma", "mongoose"}

\* POST /admin/api-keys: the admin creates a key for the user, with an
\* expiresAt
CreateApiKey(k, u) ==
  /\ k \notin DOMAIN apiKeys
  /\ apiKeys' = apiKeys @@ (k :> [userId |-> u, isActive |-> TRUE,
                                  expired |-> FALSE])
  /\ UNCHANGED <<credits, lock, auditLog, payments, chainTxs, mirrorCalls,
                 ledger, pc, call, nCalls, accounts, query, requests,
                 refreshTokens, userActive>>

\* DELETE /admin/api-keys/:keyId: update({isActive: false})
RevokeApiKey(k) ==
  /\ k \in DOMAIN apiKeys
  /\ apiKeys[k].isActive
  /\ apiKeys' = [apiKeys EXCEPT ![k].isActive = FALSE]
  /\ UNCHANGED <<credits, lock, auditLog, payments, chainTxs, mirrorCalls,
                 ledger, pc, call, nCalls, accounts, query, requests,
                 refreshTokens, userActive>>

\* time passes the key's expiresAt
ApiKeyExpires(k) ==
  /\ k \in DOMAIN apiKeys
  /\ ~apiKeys[k].expired
  /\ apiKeys' = [apiKeys EXCEPT ![k].expired = TRUE]
  /\ UNCHANGED <<credits, lock, auditLog, payments, chainTxs, mirrorCalls,
                 ledger, pc, call, nCalls, accounts, query, requests,
                 refreshTokens, userActive>>

\* PUT /admin/users/:id with {isActive: false}
DeactivateUser(u) ==
  /\ userActive[u]
  /\ userActive' = [userActive EXCEPT ![u] = FALSE]
  /\ UNCHANGED <<credits, lock, auditLog, payments, chainTxs, mirrorCalls,
                 ledger, pc, call, nCalls, accounts, query, requests,
                 refreshTokens, apiKeys>>

\* the checks of authenticateApiKey: prisma rejects !key, !key.isActive,
\* !key.user.isActive and an expired key; mongoose finds the key with
\* {key, isActive: true}, rejects !key, !key.userId (the owner's document is
\* gone) and an expired key
Authenticates(m, k) ==
  /\ k \in DOMAIN apiKeys
  /\ apiKeys[k].isActive
  /\ m = "prisma" => userActive[apiKeys[k].userId]
  /\ ~apiKeys[k].expired

\* isActive, expiry and the owner's isActive as they are in the database
ApiKeyUsable(k) ==
  /\ k \in DOMAIN apiKeys
  /\ apiKeys[k].isActive
  /\ ~apiKeys[k].expired
  /\ userActive[apiKeys[k].userId]

ServiceRequest(p, k, status, c) ==
  [requests EXCEPT ![p] =
     [route |-> "service", key |-> k, status |-> status, call |-> c,
      usable |-> ApiKeyUsable(k)]]

\* a request to GET /metadata/:resourceId with the key k through the
\* middleware m: AuthenticationError (401), or next() and the route's
\* deductCredits(API_KEY_ACTION) for the key's owner; usable records what the
\* database held when the middleware read the key
ApiKeyRequest(p, k, m) ==
  IF ~Authenticates(m, k)
  THEN /\ Takes(p)
       /\ nCalls < MaxCalls
       /\ nCalls' = nCalls + 1
       /\ requests' = ServiceRequest(p, k, 401, 0)
       /\ UNCHANGED <<besides, credits, lock, auditLog, payments, chainTxs,
                      mirrorCalls, ledger, pc, call>>
  ELSE /\ DeductCall(p, apiKeys[k].userId, "API_KEY_ACTION")
       /\ requests' = ServiceRequest(p, k, 0, nCalls + 1)

Next ==
  \/ \E p \in Procs, u \in Users, a \in ActionType : DeductStart(p, u, a)
  \/ \E p \in Procs : DeductInc(p)
  \/ \E p \in Procs : TransferBegin(p)
  \/ \E p \in Procs : TransferThrows(p)
  \/ \E p \in Procs : TransferOk(p)
  \/ \E p \in Procs : DeductCommit(p)
  \/ \E p \in Procs : DeductAuditFail(p)
  \/ \E p \in Procs, u \in Users, n \in AddAmounts, ad \in Admins,
          r \in Reasons :
       AddStart(p, u, n, ad, r)
  \/ \E p \in Procs : AddInc(p)
  \/ \E p \in Procs : AddAuditSave(p)
  \/ \E p \in Procs : AddAuditFail(p)
  \/ \E p \in Procs, u \in Users, n \in PurchasePackages, pid \in PaymentIds :
       PurchaseStart(p, u, n, pid)
  \/ \E p \in Procs : PurchaseInc(p)
  \/ \E p \in Procs : PurchaseCommit(p)
  \/ \E p \in Procs, w \in {"PaymentWriteError", "AuditWriteError"} :
       PurchaseFail(p, w)

Spec == Init /\ [][Next]_vars

\* the debits together with the confirmations that transferCredits starts
MirrorActions == {"UPLOAD_FILE"}

NextMirror ==
  \/ \E p \in Procs, u \in Users, a \in MirrorActions : DeductStart(p, u, a)
  \/ \E p \in Procs : DeductInc(p)
  \/ \E p \in Procs : TransferBegin(p)
  \/ \E p \in Procs : TransferThrows(p)
  \/ \E p \in Procs : TransferOk(p)
  \/ \E p \in Procs : DeductCommit(p)
  \/ \E p \in Procs : DeductAuditFail(p)
  \/ \E i \in 1..Len(chainTxs), st \in ConfirmStatuses :
       ConfirmTransaction(i, st)

SpecMirror == Init /\ [][NextMirror]_vars

\* the confirmation of each stored record keeps running: its wait ends, with
\* a receipt or with the timeout, and its update is written
ConfirmationRuns ==
  \A i \in 1..MaxCalls :
    WF_vars(\E st \in ConfirmStatuses : ConfirmTransaction(i, st))

SpecMirrorLive == SpecMirror /\ ConfirmationRuns

\* signups and accesses to the credit service, starting without accounts
NextSignup ==
  \/ \E p \in Procs, e \in Users : SignupStart(p, e)
  \/ \E p \in Procs : SignupSave(p)
  \/ \E p \in Procs, u \in Users, a \in ActionType : AccessCredits(p, u, a)

SpecSignup == Init /\ [][NextSignup]_vars

\* the admin routes: top-ups through the credit service, and user updates
NextAdmin ==
  \/ \E p \in Procs, u \in Users, n \in AddAmounts, ad \in Admins,
          r \in Reasons :
       AddStart(p, u, n, ad, r)
  \/ \E p \in Procs : AddInc(p)
  \/ \E p \in Procs : AddAuditSave(p)
  \/ \E p \in Procs : AddAuditFail(p)
  \/ \E p \in Procs, u \in Users, a \in ActionType : DeductStart(p, u, a)
  \/ \E p \in Procs : DeductInc(p)
  \/ \E p \in Procs : TransferBegin(p)
  \/ \E p \in Procs : TransferThrows(p)
  \/ \E p \in Procs : TransferOk(p)
  \/ \E p \in Procs : DeductCommit(p)
  \/ \E p \in Procs : DeductAuditFail(p)
  \/ \E u \in Users, v \in UpdatedCredits : AdminUpdateUser(u, v)

SpecAdmin == Init /\ [][NextAdmin]_vars

\* pages of the history of a stored audit log
NextHistory ==
  \E u \in Users, limit \in Limits, offset \in Offsets :
    History(u, limit, offset)

SpecHistory == InitHistory /\ [][NextHistory]_vars

\* the summary and the statistics of a stored audit log
NextSummary ==
  \/ \E u \in Users, limit \in Limits, offset \in Offsets :
       History(u, limit, offset)
  \/ \E u \in Users : Statistics(u)
  \/ \E u \in Users : Stats(u)

SpecSummary == InitSummary /\ [][NextSummary]_vars

\* debits whose saves read the clock, and the history read back
NextOrder ==
  \/ \E p \in Procs, u \in Users, a \in MirrorActions : DeductStart(p, u, a)
  \/ \E p \in Procs : DeductInc(p)
  \/ \E p \in Procs : TransferBegin(p)
  \/ \E p \in Procs : TransferThrows(p)
  \/ \E p \in Procs : TransferOk(p)
  \/ \E p \in Procs, t \in ClockReads : DeductSave(p, t)
  \/ \E p \in Procs : DeductAuditFail(p)
  \/ \E u \in Users, limit \in Limits, offset \in Offsets :
       HistoryAnyOrder(u, limit, offset)

SpecOrder == Init /\ [][NextOrder]_vars

\* the payment-confirm route with the purchases it starts
NextPayment ==
  \/ \E p \in Procs, u \in Users, id \in ProviderPaymentIds,
          provider \in Providers :
       ConfirmPayment(p, u, id, provider)
  \/ \E p \in Procs : PurchaseInc(p)
  \/ \E p \in Procs : PurchaseCommit(p)
  \/ \E p \in Procs, w \in {"PaymentWriteError", "AuditWriteError"} :
       PurchaseFail(p, w)

SpecPayment == Init /\ [][NextPayment]_vars

\* the two paid routes with the debits they start
NextRoutes ==
  \/ \E p \in Procs, u \in Users, r \in Resources : DownloadReport(p, u, r)
  \/ \E p \in Procs, u \in Users, r \in Resources : FetchMetadata(p, u, r)
  \/ \E p \in Procs : RouteRespond(p)
  \/ \E p \in Procs : DeductInc(p)
  \/ \E p \in Procs : TransferBegin(p)
  \/ \E p \in Procs : TransferThrows(p)
  \/ \E p \in Procs : TransferOk(p)
  \/ \E p \in Procs : DeductCommit(p)
  \/ \E p \in Procs : DeductAuditFail(p)

SpecRoutes == Init /\ [][NextRoutes]_vars

\* isPasswordStrong applied to each of the passwords
NextPassword == CheckPassword

SpecPassword == InitPassword /\ [][NextPassword]_vars

\* logins, refreshes, logouts and the admin's revoke-all
NextRefresh ==
  \/ \E u \in Users : Login(u)
  \/ \E p \in Procs, t \in 1..MaxTokens : RefreshStart(p, t)
  \/ \E p \in Procs : RefreshRevoke(p)
  \/ \E p \in Procs : RefreshStore(p)
  \/ \E p \in Procs : RefreshStoreDuplicate(p)
  \/ \E t \in 1..MaxTokens : Logout(t)
  \/ \E u \in Users : RevokeAllTokens(u)

SpecRefresh == Init /\ [][NextRefresh]_vars

\* API keys, their revocation and expiry, and the requests made with them
NextApiKey ==
  \/ \E k \in ApiKeyNames, u \in Users : CreateApiKey(k, u)
  \/ \E k \in ApiKeyNames : RevokeApiKey(k)
  \/ \E k \in ApiKeyNames : ApiKeyExpires(k)
  \/ \E u \in Users : DeactivateUser(u)
  \/ \E p \in Procs, k \in ApiKeyNames, m \in Middlewares :
       ApiKeyRequest(p, k, m)
  \/ \E p \in Procs : DeductInc(p)
  \/ \E p \in Procs : TransferBegin(p)
  \/ \E p \in Procs : TransferThrows(p)
  \/ \E p \in Procs : TransferOk(p)
  \/ \E p \in Procs : DeductCommit(p)
  \/ \E p \in Procs : DeductAuditFail(p)

SpecApiKey == Init /\ [][NextApiKey]_vars

\* ------------------------------------------------- what the claims speak of
FreeActions == {"LIST_FILES", "CREDIT_PURCHASE", "CREDIT_ADMIN_ADD"}
PaidActions == {"UPLOAD_FILE", "GENERATE_REPORT", "EXPORT_REPORT", "API_KEY_ACTION"}

\* the cost table as the documentation gives it
CatalogCost(a) ==
  CASE a = "UPLOAD_FILE" -> 10
    [] a = "GENERATE_REPORT" -> 5
    [] a = "EXPORT_REPORT" -> 2
    [] a = "API_KEY_ACTION" -> 3

AuditOf(id) == {i \in 1..Len(auditLog) : auditLog[i].call = id}
LedgerOf(id) == {e \in ledger : e.call = id}
MirrorCallsOf(id) == {m \in mirrorCalls : m.call = id}
ChainTxsOf(id) == {i \in 1..Len(chainTxs) : chainTxs[i].call = id}
PaymentsOf(id) == {i \in 1..Len(payments) : payments[i].call = id}

NoEffect(id) ==
  /\ AuditOf(id) = {}
  /\ LedgerOf(id) = {}
  /\ MirrorCallsOf(id) = {}
  /\ ChainTxsOf(id) = {}
  /\ PaymentsOf(id) = {}

DebitAmount(e) == IF e.delta < 0 THEN 0 - e.delta ELSE 0
CreditAmount(e) == IF e.delta > 0 THEN e.delta ELSE 0

RECURSIVE SumDebits(_)
SumDebits(S) ==
  IF S = {} THEN 0
  ELSE LET x == CHOOSE y \in S : TRUE IN DebitAmount(x) + SumDebits(S \ {x})

RECURSIVE SumCredits(_)
SumCredits(S) ==
  IF S = {} THEN 0
  ELSE LET x == CHOOSE y \in S : TRUE IN CreditAmount(x) + SumCredits(S \ {x})

Debited(u) == SumDebits({e \in ledger : e.userId = u})
Credited(u) == SumCredits({e \in ledger : e.userId = u})

\* C1: on every account the costs of the deductCredits calls that succeeded sum
\* to no more than the balance the account had before them plus what was
\* credited to it since (balance 10, concurrent calls of cost 10: one succeeds).
C1_NoDoubleSpend ==
  \A u \in Users : Debited(u) <= StartBalance[u] + Credited(u)

\* C2: every balance is >= 0 in every reachable state, and no debit is ever
\* recorded that took a balance below zero.
C2_NonNegativeBalance ==
  /\ \A u \in Users : credits[u] >= 0
  /\ \A i \in 1..Len(auditLog) : auditLog[i].cost > 0 => auditLog[i].creditsAfter >= 0

\* C3: a deductCredits call whose audit write failed has failed and left no
\* change of the balance, and every committed debit has its audit entry.
C3_DebitRolledBackWithAudit ==
  /\ \A p \in Procs :
       (call[p].op = "deduct" /\ call[p].err = "AuditWriteError") =>
         (pc[p] = "failed" /\ ~call[p].success /\ LedgerOf(call[p].id) = {}
          /\ AuditOf(call[p].id) = {})
  /\ \A e \in ledger :
       e.delta < 0 =>
         \E i \in AuditOf(e.call) :
           auditLog[i].userId = e.userId /\ auditLog[i].cost = 0 - e.delta

C3_Witness ==
  \E p \in Procs :
    call[p].op = "deduct" /\ pc[p] = "failed" /\ call[p].err = "AuditWriteError"

\* C4: a mirror failure is never the failure of deductCredits: the call that met
\* it either fails on the audit write or returns success with the reduced
\* balance and no txHash, the balance debited by the cost once, and one audit
\* entry with that cost and no txHash.
C4_MirrorFailureAbsorbed ==
  \A p \in Procs :
    (call[p].op = "deduct" /\ call[p].threw) =>
      /\ call[p].err # "BlockchainError"
      /\ pc[p] = "failed" => call[p].err = "AuditWriteError"
      /\ pc[p] = "done" =>
           /\ call[p].success
           /\ call[p].txHash = NoHash
           /\ ~call[p].overlapped => call[p].returned = call[p].read - call[p].cost
           /\ LedgerOf(call[p].id) =
                {[userId |-> call[p].userId, delta |-> 0 - call[p].cost,
                  call |-> call[p].id]}
           /\ Cardinality(AuditOf(call[p].id)) = 1
           /\ \A i \in AuditOf(call[p].id) :
                /\ auditLog[i].cost = call[p].cost
                /\ auditLog[i].txHash = NoHash
                /\ auditLog[i].creditsAfter = call[p].returned
           /\ ChainTxsOf(call[p].id) = {}

C4_Witness ==
  \E p \in Procs : call[p].op = "deduct" /\ call[p].threw /\ pc[p] = "done"

\* C5: a deductCredits whose cost exceeds the balance it reads fails with
\* InsufficientCreditsError and leaves no trace: no balance change, no audit
\* entry, no blockchain record, no transfer submitted.
C5_InsufficientNoSideEffect ==
  \A p \in Procs :
    (call[p].op = "deduct" /\ call[p].action \in PaidActions
       /\ CatalogCost(call[p].action) > call[p].read) =>
      /\ pc[p] = "failed"
      /\ call[p].err = "InsufficientCreditsError"
      /\ ~call[p].success
      /\ NoEffect(call[p].id)

C5_Witness ==
  \E p \in Procs :
    /\ call[p].op = "deduct" /\ pc[p] = "failed"
    /\ call[p].err = "InsufficientCreditsError"
    /\ call[p].cost > credits[call[p].userId]

\* C6: a deductCredits for LIST_FILES, CREDIT_PURCHASE or CREDIT_ADMIN_ADD
\* changes no balance, writes no audit entry and never calls the mirror.
C6_FreeActionNoEffect ==
  \A p \in Procs :
    (call[p].op = "deduct" /\ call[p].action \in FreeActions) =>
      /\ pc[p] = "done"
      /\ NoEffect(call[p].id)

C6_Witness ==
  \E p \in Procs :
    /\ call[p].op = "deduct" /\ call[p].action = "LIST_FILES" /\ pc[p] = "done"
    /\ credits = StartBalance /\ auditLog = <<>> /\ mirrorCalls = {}

\* C7: the step in which deductCredits returns for a cost-0 action returns the
\* user's current balance as the remaining credits.
C7_FreeActionReturnsBalance ==
  [][\A p \in Procs :
       (call'[p].id # call[p].id /\ call'[p].op = "deduct"
          /\ call'[p].action \in FreeActions) =>
         call'[p].returned = credits[call'[p].userId]]_vars

Finished(id) == \A p \in Procs : call[p].id = id => Free(p)

\* C9: once the call that made it is over, every committed change of a balance
\* has exactly one audit entry of the same call with cost = -change, and every
\* audit entry has its balance change.
C9_BalanceChangeHasAudit ==
  /\ \A e \in ledger :
       Finished(e.call) =>
         /\ Cardinality(AuditOf(e.call)) = 1
         /\ \A i \in AuditOf(e.call) : auditLog[i].cost = 0 - e.delta
  /\ \A i \in 1..Len(auditLog) :
       \E e \in LedgerOf(auditLog[i].call) : e.delta = 0 - auditLog[i].cost

\* C10: a purchaseCredits that returned has committed the balance increment by
\* credits, one completed Payment and one CREDIT_PURCHASE audit entry with
\* cost = -credits; one that failed or is still running has committed none.
C10_PurchaseAllOrNothing ==
  \A p \in Procs :
    call[p].op = "purchase" =>
      IF pc[p] = "done"
      THEN /\ LedgerOf(call[p].id) =
                {[userId |-> call[p].userId, delta |-> call[p].amount,
                  call |-> call[p].id]}
           /\ Cardinality(PaymentsOf(call[p].id)) = 1
           /\ \A i \in PaymentsOf(call[p].id) :
                /\ payments[i].status = "completed"
                /\ payments[i].credits = call[p].amount
                /\ payments[i].userId = call[p].userId
                /\ payments[i].transactionId = call[p].paymentId
           /\ Cardinality(AuditOf(call[p].id)) = 1
           /\ \A i \in AuditOf(call[p].id) :
                /\ auditLog[i].action = "CREDIT_PURCHASE"
                /\ auditLog[i].cost = 0 - call[p].amount
                /\ auditLog[i].userId = call[p].userId
                /\ auditLog[i].creditsAfter = call[p].returned
      ELSE NoEffect(call[p].id)

C10_Witness ==
  \E p \in Procs :
    call[p].op = "purchase" /\ pc[p] = "failed" /\ call[p].err = "AuditWriteError"

\* the metadata m names v under one of its keys
MetadataCarries(m, v) == \E k \in DOMAIN m \ {"amount"} : m[k] = v

\* C11: an addCredits call that returned has increased the target's balance by
\* exactly amount, returned the new balance, recorded one audit entry with
\* action CREDIT_ADMIN_ADD, cost = -amount, creditsAfter = the new balance and
\* metadata carrying the acting admin and the reason, and made no mirror call.
C11_AddCreditsRecorded ==
  \A p \in Procs :
    (call[p].op = "add" /\ pc[p] = "done") =>
      /\ call[p].success
      /\ LedgerOf(call[p].id) =
           {[userId |-> call[p].userId, delta |-> call[p].amount,
             call |-> call[p].id]}
      /\ Cardinality(AuditOf(call[p].id)) = 1
      /\ \A i \in AuditOf(call[p].id) :
           /\ auditLog[i].action = "CREDIT_ADMIN_ADD"
           /\ auditLog[i].cost = 0 - call[p].amount
           /\ auditLog[i].creditsAfter = call[p].returned
           /\ MetadataCarries(auditLog[i].metadata, call[p].adminId)
           /\ MetadataCarries(auditLog[i].metadata, call[p].reason)
      /\ MirrorCallsOf(call[p].id) = {}
      /\ ChainTxsOf(call[p].id) = {}

\* C15: while a deductCredits call waits in transferCredits on the chain RPC,
\* it holds no database transaction and no lock on the user's document.
C15_NoLockWhileSubmitting ==
  \A p \in Procs : pc[p] = "submitting" => lock[call[p].userId] # p

\* C17: at no time are two transferCredits submissions in flight at once.
C17_SubmissionsSerialized ==
  Cardinality({p \in Procs : pc[p] = "submitting"}) <= 1

\* C18: when transferCredits threw for a debit, no BlockchainTransaction record
\* exists for that attempt, and the audit entry of the debit, the single one
\* once the debit has returned, carries no txHash.
C18_ThrowLeavesNoRecord ==
  \A p \in Procs :
    (call[p].op = "deduct" /\ call[p].threw) =>
      /\ ChainTxsOf(call[p].id) = {}
      /\ call[p].txHash = NoHash
      /\ \A i \in AuditOf(call[p].id) : auditLog[i].txHash = NoHash
      /\ pc[p] = "done" => Cardinality(AuditOf(call[p].id)) = 1

C18_Witness ==
  \E p \in Procs :
    /\ call[p].op = "deduct" /\ call[p].threw /\ pc[p] = "done"
    /\ \E i \in AuditOf(call[p].id) : auditLog[i].txHash = NoHash
    /\ mirrorCalls # {}

TerminalStatuses == {"confirmed", "failed"}

\* C14: every BlockchainTransaction record is created pending and stays so
\* until its confirmation has run, its status is then pending, confirmed or
\* failed, and once it is confirmed or failed running the confirmation's update
\* for its txHash again, with either outcome, leaves the record as it is.
C14_StatusSettlesOnce ==
  \A i \in 1..Len(chainTxs) :
    /\ chainTxs[i].status \in {"pending"} \cup TerminalStatuses
    /\ chainTxs[i].confirm = "running" => chainTxs[i].status = "pending"
    /\ chainTxs[i].status \in TerminalStatuses =>
         \A st \in ConfirmStatuses :
           ConfirmUpdate(chainTxs[i], st) = chainTxs[i]

\* the records whose status a step changes
StatusChanged ==
  {i \in 1..Len(chainTxs) : chainTxs'[i].status # chainTxs[i].status}

\* C16: a step that changes the status of a BlockchainTransaction record, to
\* confirmed or to failed, resumes no request and changes no request's result,
\* no balance and no audit entry: no request waits for the confirmation.
C16_ConfirmationNeverAwaited ==
  [][StatusChanged # {} =>
       /\ UNCHANGED <<pc, call, credits, lock, auditLog>>
       /\ \A p \in Procs : pc[p] # "confirming"]_vars

\* a debit has returned its txHash while the record is still pending, and the
\* record of another returned debit has failed
C16_Witness ==
  /\ \E p \in Procs :
       /\ pc[p] = "done" /\ call[p].success /\ call[p].txHash # NoHash
       /\ \E i \in ChainTxsOf(call[p].id) : chainTxs[i].status = "pending"
  /\ \E p \in Procs :
       /\ pc[p] = "done" /\ call[p].success /\ call[p].txHash # NoHash
       /\ \E i \in ChainTxsOf(call[p].id) : chainTxs[i].status = "failed"

CreditServiceSteps ==
  {p \in Procs : /\ pc'[p] # pc[p]
                 /\ \/ call[p].op \in {"deduct", "add", "purchase"}
                    \/ call'[p].op \in {"deduct", "add", "purchase"}}

\* C13: every step that changes a user's balance is a step of a deductCredits,
\* addCredits or purchaseCredits call on that user.
C13_OnlyCreditServiceChangesBalance ==
  [][\A u \in Users :
       credits'[u] # credits[u] =>
         \E p \in CreditServiceSteps : call[p].userId = u]_vars

\* the positions in the audit log of the entries of user u
Mine(u) == {i \in 1..Len(auditLog) : auditLog[i].userId = u}

\* the entries of u that are newer than entry e
NewerThan(u, e) == {i \in Mine(u) : auditLog[i].createdAt > e.createdAt}

RECURSIVE PositiveCosts(_, _)
\* the sum of the positive costs among the first n entries, for user u
PositiveCosts(u, n) ==
  IF n = 0 THEN 0
  ELSE PositiveCosts(u, n - 1) +
       (IF auditLog[n].userId = u /\ auditLog[n].cost > 0
        THEN auditLog[n].cost ELSE 0)

RECURSIVE NegativeCosts(_, _)
\* the sum of the absolute values of the negative costs among the first n
NegativeCosts(u, n) ==
  IF n = 0 THEN 0
  ELSE NegativeCosts(u, n - 1) +
       (IF auditLog[n].userId = u /\ auditLog[n].cost < 0
        THEN 0 - auditLog[n].cost ELSE 0)

\* C20: the summary of getUsageHistory and the statistics of both services
\* report totalSpent = the sum of the user's positive costs and totalPurchased
\* = the sum of the absolute values of the user's negative costs.
C20_SummaryTotals ==
  LET spent == PositiveCosts(query.userId, Len(auditLog))
      purchased == NegativeCosts(query.userId, Len(auditLog))
  IN  /\ query.op = "history" =>
           /\ query.response.summary.totalSpent = spent
           /\ query.response.summary.totalPurchased = purchased
      /\ query.op = "statistics" =>
           /\ query.response.totalCreditsUsed = spent
           /\ query.response.creditsPurchased = purchased
      /\ query.op = "stats" =>
           /\ query.response.totalSpent = spent
           /\ query.response.totalPurchased = purchased

\* C25: when no call is in flight and every committed balance change has its
\* audit entry, each user's balance equals their starting balance minus the
\* sum of cost over the audit entries whose userId is that user.
C25_BalanceIsStartMinusCosts ==
  ((\A p \in Procs : Free(p)) /\ (\A e \in ledger : AuditOf(e.call) # {})) =>
    \A u \in Users : credits[u] = StartBalance[u] - SumCost(EntriesOf(u))

\* the position in the audit log, that is in the order of the commits, of the
\* entry e
CommitIndex(e) == CHOOSE i \in 1..Len(auditLog) : auditLog[i].call = e.call

\* C21: of two entries of a user in a history response, the one whose debit
\* committed later is listed first.
C21_HistoryFollowsCommitOrder ==
  query.op = "history" =>
    LET page == query.response.history
    IN  \A a, b \in 1..Len(page) :
          CommitIndex(page[a]) > CommitIndex(page[b]) => a < b

\* the committed audit entries that match the BlockchainTransaction record r
AuditMatching(r) ==
  {j \in 1..Len(auditLog) :
     /\ auditLog[j].txHash = <<r.txHash>>
     /\ auditLog[j].userId = r.userId
     /\ auditLog[j].cost = r.credits}

\* C26: once the debit that submitted it is over, every BlockchainTransaction
\* record has exactly one committed audit entry with its txHash and userId and
\* with cost = credits.
C26_TransferHasCommittedDebit ==
  \A i \in 1..Len(chainTxs) :
    Finished(chainTxs[i].call) =>
      Cardinality(AuditMatching(chainTxs[i])) = 1

\* C30: every BlockchainTransaction record that is pending becomes confirmed
\* or failed, as long as the confirmation of each record keeps running.
C30_PendingEventuallySettled ==
  \A i \in 1..MaxCalls :
    (i <= Len(chainTxs) /\ chainTxs[i].status = "pending")
      ~> (i <= Len(chainTxs) /\ chainTxs[i].status \in TerminalStatuses)

\* two records, created pending, one confirmed and one failed by the end of
\* their confirmations
C30_Witness ==
  /\ Len(chainTxs) = 2
  /\ \A i \in 1..2 : chainTxs[i].confirm = "ended"
  /\ {chainTxs[i].status : i \in 1..2} = TerminalStatuses

\* the providers at which id is a completed payment of the user u
AcceptedAt(id, u) ==
  {provider \in Providers :
     /\ PaymentCompleted(provider, ProviderPayments[provider][id])
     /\ ProviderPayments[provider][id].userId = u}

\* C28: the confirm route starts a purchase only for a payment that its
\* provider reports completed and that carries the authenticated user's id,
\* and answers every other request with an error without a purchase; so every
\* Payment record, every audit entry and every balance change is of such a
\* payment and user.
C28_ConfirmOnlyCompletedOwnPayment ==
  /\ \A p \in Procs :
       requests[p].route = "confirm" =>
         IF requests[p].provider \in
              AcceptedAt(requests[p].paymentId, requests[p].userId)
         THEN requests[p].status = 200 /\ requests[p].call # 0
         ELSE requests[p].status \in {400, 403} /\ requests[p].call = 0
  /\ \A i \in 1..Len(payments) :
       AcceptedAt(payments[i].transactionId, payments[i].userId) # {}
  /\ \A j \in 1..Len(auditLog) :
       AcceptedAt(auditLog[j].metadata.paymentId, auditLog[j].userId) # {}
  /\ \A e \in ledger : \E id \in ProviderPaymentIds : AcceptedAt(id, e.userId) # {}
  /\ \A u \in Users :
       credits[u] # StartBalance[u] =>
         \E id \in ProviderPaymentIds : AcceptedAt(id, u) # {}

\* bob's confirmation of alice's completed payment was answered 403 and
\* changed nothing, alice's confirmation of it has been credited
C28_Witness ==
  /\ \E p \in Procs :
       /\ requests[p].route = "confirm"
       /\ requests[p].status = 403
       /\ requests[p].userId = "bob"
       /\ requests[p].paymentId = "pi_1"
  /\ \E i \in 1..Len(payments) :
       payments[i].transactionId = "pi_1" /\ payments[i].userId = "alice"
  /\ credits["alice"] = StartBalance["alice"] + 100
  /\ credits["bob"] = StartBalance["bob"]

\* the Payment records of the provider payment id
PaymentsWith(id) == {i \in 1..Len(payments) : payments[i].transactionId = id}

\* the audit entries of the provider payment id
PurchaseAuditWith(id) ==
  {j \in 1..Len(auditLog) :
     /\ auditLog[j].action = "CREDIT_PURCHASE"
     /\ auditLog[j].metadata.paymentId = id}

\* C27: a provider payment id has at most one Payment record and at most one
\* audit entry, and the balance of its user has risen by its credits at most
\* once.
C27_PaymentCreditedOnce ==
  /\ \A id \in ProviderPaymentIds :
       /\ Cardinality(PaymentsWith(id)) <= 1
       /\ Cardinality(PurchaseAuditWith(id)) <= 1
  /\ \A u \in Users : credits[u] <= StartBalance[u] + 100

\* a request of the route that was answered NotFound has changed no balance
\* and written no audit entry
NotFoundCostsNothing(route) ==
  \A p \in Procs :
    (requests[p].route = route /\ requests[p].status = 404)
      => AuditOf(requests[p].call) = {} /\ LedgerOf(requests[p].call) = {}

\* C29: a report download or a metadata fetch that was answered NotFound has
\* changed no balance and written no audit entry.
C29_NotFoundCostsNothing ==
  NotFoundCostsNothing("download") /\ NotFoundCostsNothing("metadata")

\* the messages of the rules that the password violates
ViolatedRules(password) ==
  (IF Len(password) >= 8 THEN {}
   ELSE {"Password must be at least 8 characters long"})
  \cup (IF \E i \in 1..Len(password) : password[i] \in UpperCase THEN {}
        ELSE {"Password must contain at least one uppercase letter"})
  \cup (IF \E i \in 1..Len(password) : password[i] \in LowerCase THEN {}
        ELSE {"Password must contain at least one lowercase letter"})
  \cup (IF \E i \in 1..Len(password) : password[i] \in Digits THEN {}
        ELSE {"Password must contain at least one number"})
  \cup (IF \E i \in 1..Len(password) : password[i] \in SpecialChars THEN {}
        ELSE {"Password must contain at least one special character"})

\* C24: isPasswordStrong answers isValid = true with no error exactly when the
\* password has 8 characters or more, an uppercase letter, a lowercase
\* letter, a digit and a special character; otherwise isValid is false and
\* errors holds each violated rule's message once and nothing else.
C24_PasswordStrongExactly ==
  (query.op = "password" /\ query.response # NoAnswer) =>
    LET violated == ViolatedRules(query.password)
        errors == query.response.errors
    IN  /\ query.response.isValid <=> violated = {}
        /\ query.response.isValid => errors = <<>>
        /\ {errors[i] : i \in 1..Len(errors)} = violated
        /\ Len(errors) = Cardinality(violated)

\* a password of exactly 8 characters with one character of each class is
\* answered valid
C24_Witness ==
  /\ query.op = "password"
  /\ query.password = <<"A", "a", "1", "!", "!", "!", "!", "!">>
  /\ query.response = [isValid |-> TRUE, errors |-> <<>>]

\* the tokens that /refresh issued in exchange for the token t
ExchangedFor(t) ==
  {n \in 1..Len(refreshTokens) : refreshTokens[n].from = t}

RevokedTokenRefused ==
  [][\A p \in Procs, t \in 1..MaxTokens :
       (RefreshStart(p, t) /\ refreshTokens[t].revoked)
         => requests'[p].status = 401 /\ pc'[p] = "failed"]_vars

\* C23: a request that presents a key which is revoked, expired, unknown or of
\* a deactivated owner is answered 401 and no balance changes through it.
C23_UnusableKeyRejected ==
  \A p \in Procs :
    (requests[p].route = "service" /\ ~requests[p].usable)
      => /\ requests[p].status = 401
         /\ LedgerOf(requests[p].call) = {}

\* no balance has changed through a request whose key was not usable
UnusableKeyCostsNothing ==
  \A p \in Procs :
    (requests[p].route = "service" /\ ~requests[p].usable)
      => LedgerOf(requests[p].call) = {}

\* a request with a key that was revoked or had expired is answered 401
RevokedOrExpiredKeyRejected ==
  [][\A p \in Procs, k \in ApiKeyNames, m \in Middlewares :
       (/\ ApiKeyRequest(p, k, m)
        /\ k \in DOMAIN apiKeys
        /\ (~apiKeys[k].isActive \/ apiKeys[k].expired))
         => requests'[p].status = 401]_vars

====
